---------------------------- MODULE Spec2Model ----------------------------
(***************************************************************************)
(* Resilience toolkit of the cloud-optimisation backend:                   *)
(*   - CircuitBreaker and CircuitBreakerRegistry                           *)
(*       (backend/src/utils/circuitBreaker.ts)                             *)
(*   - CacheService (the expiring cache, unnamed/part_009 lines 52-205)    *)
(*   - PerformanceProfiler, LoadTester and MemoryLeakDetector              *)
(*       (backend/src/utils/performance.ts)                                *)
(*   - the cached, breaker-protected reads of the services                 *)
(*       (backend/src/services/ResourceService.ts)                         *)
(*                                                                         *)
(* Time is the value of Date.now(), an integer that only grows.  A wrapped *)
(* operation is asynchronous: execute() admits it (ExecuteCall) and it     *)
(* completes in a later step (OperationSucceeds / OperationFails), so      *)
(* several operations of one breaker can be in flight at once.  All        *)
(* bookkeeping between two awaits runs atomically (one event-loop turn).   *)
(***************************************************************************)
EXTENDS Integers, Sequences, FiniteSets, Bags, TLC

(***************************************************************************)
(* Bounds of the model.                                                    *)
(***************************************************************************)
MaxTime == 2
MaxRequests == 3
MaxInflight == 2
MaxTimers == 2
MaxCalls == 3

Names == {"a", "b"}
Results == {"r1", "r2"}
Errors == {"e1", "e2"}
Keys == {"k1", "k2"}
Values == {"v1", "v2"}

VARIABLES
    now,        \* Date.now()
    breakers,   \* CircuitBreakerRegistry.breakers : name -> breaker | NoBreaker
    created,    \* number of CircuitBreaker objects constructed so far
    inflight,   \* bag of operations awaited inside execute()
    timers,     \* bag of pending setTimeout callbacks scheduled by open()
    outcome,    \* what the most recent call gave back to its caller
    streak,     \* history: failures completed in CLOSED since the breaker last
                \* entered CLOSED or last completed a success there
    issued,     \* history: number of execute() calls made so far
    got,        \* id of the instance the last registry lookup returned (0: undefined)
    cacheOpts,  \* CacheService.options
    cache,      \* CacheService.cache: the Map's entries in insertion order
    stats,      \* CacheService.hits, misses, evictions, totalAccessTime, totalAccesses
    sweep,      \* the cleanup interval timer: running or stopped, and its next due time
    ret,        \* the key and the result of get(), when it was the most recent call
    calls,      \* history: number of get, set, delete and clear calls made so far
    promised,   \* history: per key, the value and the time now + ttl of the last
                \* set(k, v, ttl) with ttl > 0 that no delete, clear or eviction
                \* of k has followed (NoPromise otherwise)
    profiles,   \* PerformanceProfiler.profiles : label -> samples (<<>>: no array yet)
    pendingProfiles, \* bag of end functions startProfile has returned, not yet called
    completed,  \* history: per label, every sample in the order the profiles ended
    started,    \* history: number of startProfile calls made so far
    pstats,     \* the label and the result of the most recent getProfileStats
    benchPc,    \* LoadTester.benchmark: "idle", "warmup", "timed" or "done"
    benchOpts,  \* its options (iterations, concurrency, warmup) and its fn
    warmed,     \* the counter i of the warmup loop
    batches,    \* the batch loops: counter i, awaiting fn or not, iterStart
    results,    \* the array results (durations of the timed calls that resolved)
    errors,     \* errors.length
    benchStart, \* startTime
    fnCalls,    \* history: number of invocations of fn, by phase
    benchRet,   \* the value benchmark resolved with
    snapshots,  \* MemoryLeakDetector.snapshots: heapUsed of each snapshot, in MB
    interval,   \* MemoryLeakDetector.interval is set (TRUE) or null (FALSE)
    warned,     \* the last sampling tick issued the leak warning
    sampled,    \* history: number of sampling ticks so far
    reads,      \* the service reads in flight: where each stands and what it
                \* has seen (with history fields held, heldVal and fetches)
    served,     \* how the most recent service read ended
    attempts    \* history: execute() calls of a recovering breaker, by fate

breakerVars == <<breakers, created, inflight, timers, streak, issued, got>>
cacheVars == <<cacheOpts, cache, stats, sweep, ret, calls, promised>>
profilerVars == <<profiles, pendingProfiles, completed, started, pstats>>
benchVars ==
    <<benchPc, benchOpts, warmed, batches, results, errors, benchStart, fnCalls, benchRet>>
detectorVars == <<snapshots, interval, warned, sampled>>
serviceVars == <<reads, served, attempts>>
perfVars == <<profilerVars, benchVars, detectorVars, serviceVars>>
vars == <<now, outcome, breakerVars, cacheVars, perfVars>>

CLOSED == "CLOSED"
OPEN == "OPEN"
HALF_OPEN == "HALF_OPEN"
CircuitState == {CLOSED, OPEN, HALF_OPEN}

NoBreaker == [id |-> 0]
Undefined == [undefined |-> TRUE]
NoOutcome == [kind |-> "none", val |-> ""]

(***************************************************************************)
(* Options.  The constructor's default applies when options is undefined.  *)
(***************************************************************************)
DefaultOptions ==
    [failureThreshold |-> 5, successThreshold |-> 3,
     timeout |-> 60000, resetTimeout |-> 300000]

OptionChoices ==
    { [failureThreshold |-> 1, successThreshold |-> 1, timeout |-> 1, resetTimeout |-> 2],
      [failureThreshold |-> 2, successThreshold |-> 2, timeout |-> 1, resetTimeout |-> 1] }

(***************************************************************************)
(* class CircuitBreaker: field initialisers and constructor.               *)
(***************************************************************************)
NewBreaker(ident, options) ==
    [id |-> ident,
     options |-> IF options = Undefined THEN DefaultOptions ELSE options,
     state |-> CLOSED,
     failureCount |-> 0,
     successCount |-> 0,
     nextAttempt |-> 0,
     totalRequests |-> 0,
     totalFailures |-> 0,
     totalSuccesses |-> 0]

(***************************************************************************)
(* The private methods, as functions of the breaker b and the time t.      *)
(* open() also schedules a timer: the result carries the due times of the  *)
(* timers the call has scheduled.                                          *)
(***************************************************************************)
open(b, t) ==
    [brk |-> [b EXCEPT !.state = OPEN, !.nextAttempt = t + b.options.timeout],
     sched |-> <<t + b.options.resetTimeout>>]

close(b) ==
    [b EXCEPT !.state = CLOSED, !.failureCount = 0, !.successCount = 0]

\* onSuccess with the HALF_OPEN comparison written > instead of >=.
onSuccess_StrictThreshold(b) ==
    LET b1 == [b EXCEPT !.totalSuccesses = @ + 1] IN
    IF b1.state = HALF_OPEN
    THEN LET b2 == [b1 EXCEPT !.successCount = @ + 1] IN
         IF b2.successCount > b2.options.successThreshold THEN close(b2) ELSE b2
    ELSE IF b1.state = CLOSED
         THEN [b1 EXCEPT !.failureCount = 0]
         ELSE b1

onSuccess(b) ==
    LET b1 == [b EXCEPT !.totalSuccesses = @ + 1] IN
    IF b1.state = HALF_OPEN
    THEN LET b2 == [b1 EXCEPT !.successCount = @ + 1] IN
         IF b2.successCount >= b2.options.successThreshold THEN close(b2) ELSE b2
    ELSE IF b1.state = CLOSED
         THEN [b1 EXCEPT !.failureCount = 0]
         ELSE b1

\* onFailure with the CLOSED comparison written > instead of >=.
onFailure_StrictThreshold(b, t) ==
    LET b1 == [b EXCEPT !.totalFailures = @ + 1, !.failureCount = @ + 1] IN
    IF b1.state = HALF_OPEN
    THEN open(b1, t)
    ELSE IF b1.state = CLOSED /\ b1.failureCount > b1.options.failureThreshold
         THEN open(b1, t)
         ELSE [brk |-> b1, sched |-> <<>>]

\* onFailure that applies the threshold in HALF_OPEN too.
onFailure_HalfOpenNeedsThreshold(b, t) ==
    LET b1 == [b EXCEPT !.totalFailures = @ + 1, !.failureCount = @ + 1] IN
    IF b1.state \in {HALF_OPEN, CLOSED} /\ b1.failureCount >= b1.options.failureThreshold
    THEN open(b1, t)
    ELSE [brk |-> b1, sched |-> <<>>]

onFailure(b, t) ==
    LET b1 == [b EXCEPT !.totalFailures = @ + 1, !.failureCount = @ + 1] IN
    IF b1.state = HALF_OPEN
    THEN open(b1, t)
    ELSE IF b1.state = CLOSED /\ b1.failureCount >= b1.options.failureThreshold
         THEN open(b1, t)
         ELSE [brk |-> b1, sched |-> <<>>]

\* execute with the wait test inverted (Date.now() > nextAttempt rejects).
execute_InvertedWait(b, t) ==
    LET b1 == [b EXCEPT !.totalRequests = @ + 1] IN
    IF b1.state = OPEN
    THEN IF t > b1.nextAttempt
         THEN [brk |-> b1, admitted |-> FALSE]
         ELSE [brk |-> [b1 EXCEPT !.state = HALF_OPEN, !.successCount = 0],
               admitted |-> TRUE]
    ELSE [brk |-> b1, admitted |-> TRUE]

\* execute that forgets successCount = 0 on the way to HALF_OPEN.
execute_KeepsSuccessCount(b, t) ==
    LET b1 == [b EXCEPT !.totalRequests = @ + 1] IN
    IF b1.state = OPEN
    THEN IF t < b1.nextAttempt
         THEN [brk |-> b1, admitted |-> FALSE]
         ELSE [brk |-> [b1 EXCEPT !.state = HALF_OPEN], admitted |-> TRUE]
    ELSE [brk |-> b1, admitted |-> TRUE]

\* execute that counts the request only once the call is admitted.
execute_CountsAdmittedOnly(b, t) ==
    IF b.state = OPEN
    THEN IF t < b.nextAttempt
         THEN [brk |-> b, admitted |-> FALSE]
         ELSE [brk |-> [b EXCEPT !.totalRequests = @ + 1, !.state = HALF_OPEN,
                                 !.successCount = 0],
               admitted |-> TRUE]
    ELSE [brk |-> [b EXCEPT !.totalRequests = @ + 1], admitted |-> TRUE]

(***************************************************************************)
(* execute(), up to the await: count the request, then reject or admit.    *)
(***************************************************************************)
\* execute that admits the probe but leaves the state at OPEN.
execute_StaysOpen(b, t) ==
    LET c == [b EXCEPT !.totalRequests = @ + 1] IN
    IF c.state = OPEN /\ t < c.nextAttempt
    THEN [brk |-> c, admitted |-> FALSE]
    ELSE [brk |-> c, admitted |-> TRUE]

execute(b, t) ==
    LET b1 == [b EXCEPT !.totalRequests = @ + 1] IN
    IF b1.state = OPEN
    THEN IF t < b1.nextAttempt
         THEN [brk |-> b1, admitted |-> FALSE]
         ELSE [brk |-> [b1 EXCEPT !.state = HALF_OPEN, !.successCount = 0],
               admitted |-> TRUE]
    ELSE [brk |-> b1, admitted |-> TRUE]

(***************************************************************************)
(* execute(), after the await: what the caller gets.                       *)
(***************************************************************************)
returnResult(result) == [kind |-> "returned", val |-> result]

\* a catch block that throws a new error in place of the caught one.
rethrow_Wrapped(error) == [kind |-> "raised", val |-> "CircuitBreakerError"]

rethrow(error) == [kind |-> "raised", val |-> error]

rejectOpen(b, t) == [kind |-> "raised", val |-> "CircuitOpen"]

(***************************************************************************)
(* The callback open() hands to setTimeout.                                *)
(***************************************************************************)
\* A timer callback that clears failureCount whatever the state is.
resetTimerCallback_Unconditional(b) == [b EXCEPT !.failureCount = 0]

resetTimerCallback(b) ==
    IF b.state = OPEN THEN [b EXCEPT !.failureCount = 0] ELSE b

\* forceOpen that clears the two running counts, as forceClose does.
forceOpen_ZeroesCounts(b, t) ==
    [b EXCEPT !.state = OPEN, !.nextAttempt = t + b.options.timeout,
              !.failureCount = 0, !.successCount = 0]

forceOpen(b, t) ==
    [b EXCEPT !.state = OPEN, !.nextAttempt = t + b.options.timeout]

\* forceClose that clears the cumulative totals as well, as reset does.
forceClose_ZeroesTotals(b) ==
    [b EXCEPT !.state = CLOSED, !.failureCount = 0, !.successCount = 0,
              !.totalRequests = 0, !.totalFailures = 0, !.totalSuccesses = 0]

\* forceClose that only switches the state.
forceClose_KeepsCounts(b) == [b EXCEPT !.state = CLOSED]

forceClose(b) ==
    [b EXCEPT !.state = CLOSED, !.failureCount = 0, !.successCount = 0]

\* reset that restores the state but keeps the cumulative counters.
reset_KeepsTotals(b) ==
    [b EXCEPT !.state = CLOSED, !.failureCount = 0, !.successCount = 0]

reset(b) ==
    [b EXCEPT !.state = CLOSED, !.failureCount = 0, !.successCount = 0,
              !.totalRequests = 0, !.totalFailures = 0, !.totalSuccesses = 0]

(***************************************************************************)
(* class CacheService<T> (unnamed/part_009).  The Map is the sequence of   *)
(* its entries in insertion order, which is the order evict() and the      *)
(* cleanup callback iterate in.  get() runs without an await, so all its   *)
(* Date.now() calls read the same instant and accessTime is 0.             *)
(***************************************************************************)
DefaultCacheOptions == [ttl |-> 300000, maxSize |-> 1000, cleanupInterval |-> 60000]

CacheOptionChoices ==
    { [ttl |-> 2, maxSize |-> 2, cleanupInterval |-> 1],
      [ttl |-> 1, maxSize |-> 1, cleanupInterval |-> 2] }

Null == "null"
NoKey == ""
NoPromise == [none |-> TRUE]
NoCall == [op |-> "none", key |-> NoKey, val |-> Null]
Ms(n) == [ms |-> n]
TtlArgs == {Undefined, Ms(0), Ms(1), Ms(2)}

ZeroStats ==
    [hits |-> 0, misses |-> 0, evictions |-> 0, totalAccessTime |-> 0, totalAccesses |-> 0]

IndexOf(c, k) ==
    IF \E i \in 1..Len(c) : c[i].key = k
    THEN CHOOSE i \in 1..Len(c) : c[i].key = k
    ELSE 0

HasKey(c, k) == IndexOf(c, k) # 0

RECURSIVE WithoutKey(_, _)
WithoutKey(c, k) ==
    IF c = <<>> THEN <<>>
    ELSE IF Head(c).key = k THEN WithoutKey(Tail(c), k)
    ELSE <<Head(c)>> \o WithoutKey(Tail(c), k)

\* ttl || this.options.ttl
orDefault(ttl, dflt) ==
    IF ttl = Undefined THEN dflt
    ELSE IF ttl.ms = 0 THEN dflt
    ELSE ttl.ms

\* get that treats an entry as expired from the instant expiry on (>=).
cacheGet_ExpiresAtDue(c, st, k, t) ==
    LET i == IndexOf(c, k) IN
    IF i = 0
    THEN [cache |-> c, stats |-> [st EXCEPT !.misses = @ + 1], ret |-> Null]
    ELSE IF t >= c[i].expiry
    THEN [cache |-> WithoutKey(c, k), stats |-> [st EXCEPT !.misses = @ + 1], ret |-> Null]
    ELSE [cache |-> [c EXCEPT ![i].lastAccessed = t, ![i].accessCount = @ + 1],
          stats |-> [st EXCEPT !.hits = @ + 1, !.totalAccesses = @ + 1],
          ret |-> c[i].value]

\* get that counts the miss of an expired entry but leaves the entry stored.
cacheGet_ExpiredKept(c, st, k, t) ==
    LET i == IndexOf(c, k) IN
    IF i = 0
    THEN [cache |-> c, stats |-> [st EXCEPT !.misses = @ + 1], ret |-> Null]
    ELSE IF t > c[i].expiry
    THEN [cache |-> c, stats |-> [st EXCEPT !.misses = @ + 1], ret |-> Null]
    ELSE [cache |-> [c EXCEPT ![i].lastAccessed = t, ![i].accessCount = @ + 1],
          stats |-> [st EXCEPT !.hits = @ + 1, !.totalAccesses = @ + 1],
          ret |-> c[i].value]

cacheGet(c, st, k, t) ==
    LET i == IndexOf(c, k) IN
    IF i = 0
    THEN [cache |-> c, stats |-> [st EXCEPT !.misses = @ + 1], ret |-> Null]
    ELSE IF t > c[i].expiry
    THEN [cache |-> WithoutKey(c, k), stats |-> [st EXCEPT !.misses = @ + 1], ret |-> Null]
    ELSE LET accessTime == t - t IN
         [cache |-> [c EXCEPT ![i].lastAccessed = t, ![i].accessCount = @ + 1],
          stats |-> [st EXCEPT !.hits = @ + 1,
                               !.totalAccessTime = @ + accessTime,
                               !.totalAccesses = @ + 1],
          ret |-> c[i].value]

\* the loop of evict(): the first entry, in iteration order, whose lastAccessed
\* is below every earlier one and below the starting value Date.now().
RECURSIVE keyToEvict(_, _, _, _)
keyToEvict(c, i, oldestAccess, key) ==
    IF i > Len(c) THEN key
    ELSE IF c[i].lastAccessed < oldestAccess
         THEN keyToEvict(c, i + 1, c[i].lastAccessed, c[i].key)
         ELSE keyToEvict(c, i + 1, oldestAccess, key)

evict(c, st, t) ==
    LET key == keyToEvict(c, 1, t, NoKey) IN
    IF key # NoKey
    THEN [cache |-> WithoutKey(c, key), stats |-> [st EXCEPT !.evictions = @ + 1]]
    ELSE [cache |-> c, stats |-> st]

cacheSet(c, st, opts, k, v, ttl, t) ==
    LET e == IF Len(c) >= opts.maxSize THEN evict(c, st, t)
             ELSE [cache |-> c, stats |-> st]
        entry == [key |-> k, value |-> v, expiry |-> t + orDefault(ttl, opts.ttl),
                  lastAccessed |-> t, accessCount |-> 0]
        i == IndexOf(e.cache, k)
    IN [cache |-> IF i = 0 THEN Append(e.cache, entry) ELSE [e.cache EXCEPT ![i] = entry],
        stats |-> e.stats]

cacheDelete(c, k) == [cache |-> WithoutKey(c, k), ret |-> HasKey(c, k)]

resetStats(st) == ZeroStats

cacheClear(c, st) == [cache |-> <<>>, stats |-> resetStats(st)]

(***************************************************************************)
(* getStats(): a JavaScript quotient of two counters is kept as a reduced  *)
(* fraction; 0/0 is NaN and n/0 is Infinity.  x || 0 gives 0 for the falsy *)
(* numbers 0 and NaN.                                                      *)
(***************************************************************************)
RECURSIVE GCD(_, _)
GCD(a, b) == IF b = 0 THEN a ELSE GCD(b, a % b)

NaN == [num |-> 0, den |-> 0]
Infinity == [num |-> 1, den |-> 0]
Zero == [num |-> 0, den |-> 1]

divide(a, b) ==
    IF b = 0 THEN (IF a = 0 THEN NaN ELSE Infinity)
    ELSE [num |-> a \div GCD(a, b), den |-> b \div GCD(a, b)]

orZero(x) == IF x.num = 0 THEN Zero ELSE x

\* getStats without the "|| 0" fallbacks.
getStats_NoFallback(c, st) ==
    [size |-> Len(c),
     hits |-> st.hits,
     misses |-> st.misses,
     hitRate |-> divide(st.hits, st.hits + st.misses),
     avgAccessTime |-> divide(st.totalAccessTime, st.totalAccesses),
     evictions |-> st.evictions]

getStats(c, st) ==
    [size |-> Len(c),
     hits |-> st.hits,
     misses |-> st.misses,
     hitRate |-> orZero(divide(st.hits, st.hits + st.misses)),
     avgAccessTime |-> orZero(divide(st.totalAccessTime, st.totalAccesses)),
     evictions |-> st.evictions]

\* cleanup callback that also removes an entry at the instant of its expiry.
RECURSIVE cleanup_ExpiresAtDue(_, _)
cleanup_ExpiresAtDue(c, t) ==
    IF c = <<>> THEN <<>>
    ELSE IF t >= Head(c).expiry THEN cleanup_ExpiresAtDue(Tail(c), t)
    ELSE <<Head(c)>> \o cleanup_ExpiresAtDue(Tail(c), t)

\* the callback of startCleanup()
RECURSIVE cleanup(_, _)
cleanup(c, t) ==
    IF c = <<>> THEN <<>>
    ELSE IF t > Head(c).expiry THEN cleanup(Tail(c), t)
    ELSE <<Head(c)>> \o cleanup(Tail(c), t)

\* the cache of the breaker and registry specifications: constructed, unused
CacheIdle ==
    /\ cacheOpts = DefaultCacheOptions
    /\ cache = <<>>
    /\ stats = ZeroStats
    /\ sweep = [running |-> TRUE, due |-> DefaultCacheOptions.cleanupInterval]
    /\ ret = NoCall
    /\ calls = 0
    /\ promised = [k \in Keys |-> NoPromise]

(***************************************************************************)
(* performance.ts: the static state of the three utilities before use.     *)
(***************************************************************************)
Labels == {"x", "y"}
NullStats == [null |-> TRUE]
NoStats == [label |-> "", val |-> NullStats]
NoOptions == [iterations |-> 0, concurrency |-> 1, warmup |-> 0, fn |-> "none"]
NoReturn == [none |-> TRUE]

ProfilerIdle ==
    /\ profiles = [l \in Labels |-> <<>>]
    /\ pendingProfiles = EmptyBag
    /\ completed = [l \in Labels |-> <<>>]
    /\ started = 0
    /\ pstats = NoStats

BenchIdle ==
    /\ benchPc = "idle"
    /\ benchOpts = NoOptions
    /\ warmed = 0
    /\ batches = <<>>
    /\ results = <<>>
    /\ errors = 0
    /\ benchStart = 0
    /\ fnCalls = [warmup |-> 0, timed |-> 0]
    /\ benchRet = NoReturn

DetectorIdle ==
    /\ snapshots = <<>>
    /\ interval = FALSE
    /\ warned = FALSE
    /\ sampled = 0

\* no service read has been made, and no breaker is being followed through
\* its recovery
NoRead == [kind |-> "none", val |-> "", held |-> FALSE, heldVal |-> "", fetches |-> 0]

ServiceIdle ==
    /\ reads = <<>>
    /\ served = NoRead
    /\ attempts = [rejected |-> 0, admitted |-> 0]

PerfIdle == ProfilerIdle /\ BenchIdle /\ DetectorIdle /\ ServiceIdle

(***************************************************************************)
(* Bags of in-flight operations and of pending timers.                     *)
(***************************************************************************)
RECURSIVE AddTimers(_, _, _)
AddTimers(bag, n, sched) ==
    IF sched = <<>> THEN bag
    ELSE AddTimers(bag (+) SetToBag({[name |-> n, at |-> Head(sched)]}), n, Tail(sched))

Registered(n) == breakers[n] # NoBreaker

(***************************************************************************)
(* The history variable streak after a step of kind k ("fail", "success",  *)
(* "restart" or "other") that takes a breaker from pre to post.  It reads  *)
(* only the states, never failureCount or the thresholds.  The failure     *)
(* that leaves CLOSED is still counted; the next step of the breaker       *)
(* outside CLOSED clears the count.                                        *)
(***************************************************************************)
StreakAfter(pre, post, old, k) ==
    IF pre.state # CLOSED THEN 0
    ELSE IF k = "fail" THEN old + 1
    ELSE IF k \in {"success", "restart"} THEN 0
    ELSE IF post.state = CLOSED THEN old ELSE 0

(***************************************************************************)
(* Actions on one breaker.                                                 *)
(***************************************************************************)
ExecuteCall(n) ==
    /\ Registered(n)
    /\ issued < MaxRequests
    /\ BagCardinality(inflight) < MaxInflight
    /\ LET x == execute(breakers[n], now) IN
       /\ breakers' = [breakers EXCEPT ![n] = x.brk]
       /\ IF x.admitted
          THEN /\ inflight' = inflight (+) SetToBag({[name |-> n, admittedIn |-> x.brk.state]})
               /\ outcome' = [kind |-> "pending", val |-> ""]
          ELSE /\ inflight' = inflight
               /\ outcome' = rejectOpen(breakers[n], now)
    /\ UNCHANGED <<now, created, timers, got, cacheVars, perfVars>>
    /\ issued' = issued + 1
    /\ streak' = [streak EXCEPT ![n] = StreakAfter(breakers[n], breakers'[n], @, "other")]

OperationSucceeds(op, r) ==
    /\ BagIn(op, inflight)
    /\ inflight' = inflight (-) SetToBag({op})
    /\ breakers' = [breakers EXCEPT ![op.name] = onSuccess(@)]
    /\ outcome' = returnResult(r)
    /\ UNCHANGED <<now, created, timers, issued, got, cacheVars, perfVars>>
    /\ streak' = [streak EXCEPT ![op.name] = StreakAfter(breakers[op.name], breakers'[op.name], @, "success")]

OperationFails(op, e) ==
    /\ BagIn(op, inflight)
    /\ inflight' = inflight (-) SetToBag({op})
    /\ LET x == onFailure(breakers[op.name], now) IN
       /\ BagCardinality(timers) + Len(x.sched) <= MaxTimers
       /\ breakers' = [breakers EXCEPT ![op.name] = x.brk]
       /\ timers' = AddTimers(timers, op.name, x.sched)
    /\ outcome' = rethrow(e)
    /\ UNCHANGED <<now, created, issued, got, cacheVars, perfVars>>
    /\ streak' = [streak EXCEPT ![op.name] = StreakAfter(breakers[op.name], breakers'[op.name], @, "fail")]

ResetTimerFires(tm) ==
    /\ BagIn(tm, timers)
    /\ tm.at <= now
    /\ timers' = timers (-) SetToBag({tm})
    /\ breakers' = [breakers EXCEPT ![tm.name] = resetTimerCallback(@)]
    /\ outcome' = [kind |-> "timer", val |-> ""]
    /\ UNCHANGED <<now, created, inflight, issued, got, cacheVars, perfVars>>
    /\ streak' = [streak EXCEPT ![tm.name] = StreakAfter(breakers[tm.name], breakers'[tm.name], @, "other")]

ForceOpen(n) ==
    /\ Registered(n)
    /\ breakers' = [breakers EXCEPT ![n] = forceOpen(@, now)]
    /\ outcome' = [kind |-> "forceOpen", val |-> ""]
    /\ UNCHANGED <<now, created, inflight, timers, issued, got, cacheVars, perfVars>>
    /\ streak' = [streak EXCEPT ![n] = StreakAfter(breakers[n], breakers'[n], @, "other")]

ForceClose(n) ==
    /\ Registered(n)
    /\ breakers' = [breakers EXCEPT ![n] = forceClose(@)]
    /\ outcome' = [kind |-> "forceClose", val |-> ""]
    /\ UNCHANGED <<now, created, inflight, timers, issued, got, cacheVars, perfVars>>
    /\ streak' = [streak EXCEPT ![n] = StreakAfter(breakers[n], breakers'[n], @, "restart")]

Reset(n) ==
    /\ Registered(n)
    /\ breakers' = [breakers EXCEPT ![n] = reset(@)]
    /\ outcome' = [kind |-> "reset", val |-> ""]
    /\ UNCHANGED <<now, created, inflight, timers, issued, got, cacheVars, perfVars>>
    /\ streak' = [streak EXCEPT ![n] = StreakAfter(breakers[n], breakers'[n], @, "restart")]

Tick ==
    /\ now < MaxTime
    /\ now' = now + 1
    /\ UNCHANGED <<outcome, breakerVars, cacheVars, perfVars>>

(***************************************************************************)
(* One breaker, constructed with one of the option sets.                   *)
(***************************************************************************)
InitBreaker ==
    /\ now = 0
    /\ \E o \in OptionChoices :
          breakers = [n \in Names |-> IF n = "a" THEN NewBreaker(1, o) ELSE NoBreaker]
    /\ created = 1
    /\ inflight = EmptyBag
    /\ timers = EmptyBag
    /\ outcome = NoOutcome
    /\ streak = [n \in Names |-> 0]
    /\ issued = 0
    /\ got = 0
    /\ CacheIdle
    /\ PerfIdle

NextBreaker ==
    \/ ExecuteCall("a")
    \/ \E op \in BagToSet(inflight), r \in Results : OperationSucceeds(op, r)
    \/ \E op \in BagToSet(inflight), e \in Errors : OperationFails(op, e)
    \/ \E tm \in BagToSet(timers) : ResetTimerFires(tm)
    \/ ForceOpen("a")
    \/ ForceClose("a")
    \/ Reset("a")
    \/ Tick

SpecBreaker == InitBreaker /\ [][NextBreaker]_vars

(***************************************************************************)
(* Recovery of one breaker.  The breaker has just been opened, by          *)
(* failureThreshold failed calls in a row or by forceOpen(), at time 0.    *)
(* Callers go on calling execute(), every admitted operation succeeds,     *)
(* time advances, and nobody calls forceOpen(), forceClose() or reset().   *)
(* The calls that are rejected and the calls that are admitted are each    *)
(* capped, so that the totals stay bounded; a rejected call changes        *)
(* nothing but totalRequests.                                              *)
(***************************************************************************)
MaxProbes == 3

\* the breaker and the timers after k calls in a row that each fail at time t
RECURSIVE failedCalls(_, _, _)
failedCalls(b, k, t) ==
    IF k = 0 THEN [brk |-> b, sched |-> <<>>]
    ELSE LET x == onFailure(execute(b, t).brk, t)
             rest == failedCalls(x.brk, k - 1, t)
         IN [brk |-> rest.brk, sched |-> x.sched \o rest.sched]

RecoveryCall(n) ==
    /\ Registered(n)
    /\ BagCardinality(inflight) < MaxInflight
    /\ LET x == execute(breakers[n], now) IN
       /\ breakers' = [breakers EXCEPT ![n] = x.brk]
       /\ IF x.admitted
          THEN /\ attempts.admitted < MaxProbes
               /\ attempts' = [attempts EXCEPT !.admitted = @ + 1]
               /\ inflight' = inflight (+) SetToBag({[name |-> n, admittedIn |-> x.brk.state]})
               /\ outcome' = [kind |-> "pending", val |-> ""]
          ELSE /\ attempts.rejected < MaxRequests
               /\ attempts' = [attempts EXCEPT !.rejected = @ + 1]
               /\ inflight' = inflight
               /\ outcome' = rejectOpen(breakers[n], now)
    /\ issued' = issued + 1
    /\ streak' = [streak EXCEPT ![n] = StreakAfter(breakers[n], breakers'[n], @, "other")]
    /\ UNCHANGED <<now, created, timers, got, cacheVars, profilerVars, benchVars,
                   detectorVars, reads, served>>

InitRecovery ==
    /\ now = 0
    /\ \E o \in OptionChoices, forced \in BOOLEAN :
          LET x == failedCalls(NewBreaker(1, o), o.failureThreshold, 0) IN
          /\ breakers = [n \in Names |->
                           IF n # "a" THEN NoBreaker
                           ELSE IF forced THEN forceOpen(NewBreaker(1, o), 0)
                           ELSE x.brk]
          /\ timers = IF forced THEN EmptyBag ELSE AddTimers(EmptyBag, "a", x.sched)
          /\ streak = [n \in Names |->
                         IF n = "a" /\ ~forced THEN o.failureThreshold ELSE 0]
          /\ issued = IF forced THEN 0 ELSE o.failureThreshold
          /\ outcome = IF forced THEN [kind |-> "forceOpen", val |-> ""]
                       ELSE rethrow("e1")
    /\ created = 1
    /\ inflight = EmptyBag
    /\ got = 0
    /\ CacheIdle
    /\ PerfIdle

NextRecovery ==
    \/ RecoveryCall("a")
    \/ \E op \in BagToSet(inflight), r \in Results : OperationSucceeds(op, r)
    \/ \E tm \in BagToSet(timers) : ResetTimerFires(tm)
    \/ Tick

\* time keeps advancing, callers keep calling, awaited operations settle
SpecRecovery ==
    /\ InitRecovery
    /\ [][NextRecovery]_vars
    /\ WF_vars(Tick)
    /\ WF_vars(RecoveryCall("a"))
    /\ WF_vars(\E op \in BagToSet(inflight), r \in Results : OperationSucceeds(op, r))


(***************************************************************************)
(* class CircuitBreakerRegistry.  A registry is the map reg from names to  *)
(* breakers together with cnt, the number of breakers constructed; an      *)
(* instance is identified by its construction number.                      *)
(***************************************************************************)
\* getOrCreate without the has() test: every call constructs and stores.
getOrCreate_AlwaysConstructs(reg, cnt, name, options) ==
    [reg |-> [reg EXCEPT ![name] = NewBreaker(cnt + 1, options)],
     cnt |-> cnt + 1,
     ret |-> cnt + 1]

getOrCreate(reg, cnt, name, options) ==
    IF reg[name] = NoBreaker
    THEN [reg |-> [reg EXCEPT ![name] = NewBreaker(cnt + 1, options)],
          cnt |-> cnt + 1,
          ret |-> cnt + 1]
    ELSE [reg |-> reg, cnt |-> cnt, ret |-> reg[name].id]

get(reg, name) == reg[name].id

resetAll(reg) ==
    [n \in DOMAIN reg |-> IF reg[n] = NoBreaker THEN NoBreaker ELSE reset(reg[n])]

GetOrCreate(n, o) ==
    /\ LET x == getOrCreate(breakers, created, n, o) IN
       /\ breakers' = x.reg
       /\ created' = x.cnt
       /\ got' = x.ret
    /\ outcome' = [kind |-> "getOrCreate", val |-> o]
    /\ UNCHANGED <<now, inflight, timers, streak, issued, cacheVars, perfVars>>

Get(n) ==
    /\ got' = get(breakers, n)
    /\ outcome' = [kind |-> "registry", val |-> ""]
    /\ UNCHANGED <<now, breakers, created, inflight, timers, streak, issued, cacheVars, perfVars>>

ResetAll ==
    /\ breakers' = resetAll(breakers)
    /\ streak' = [n \in Names |-> 0]
    /\ outcome' = [kind |-> "registry", val |-> ""]
    /\ UNCHANGED <<now, created, inflight, timers, issued, got, cacheVars, perfVars>>

(***************************************************************************)
(* protectedCall(name, operation, options): getOrCreate, then execute on   *)
(* the instance it returned.  The services call it without options, and    *)
(* the callers of the registry specification await one protected call      *)
(* before they make the next.                                              *)
(***************************************************************************)
ProtectedCall(n, o) ==
    /\ issued < MaxRequests
    /\ issued' = issued + 1
    /\ inflight = EmptyBag
    /\ LET g == getOrCreate(breakers, created, n, o)
           x == execute(g.reg[n], now)
       IN /\ breakers' = [g.reg EXCEPT ![n] = x.brk]
          /\ created' = g.cnt
          /\ got' = g.ret
          /\ IF x.admitted
             THEN /\ inflight' = inflight (+) SetToBag({[name |-> n, admittedIn |-> x.brk.state]})
                  /\ outcome' = [kind |-> "pending", val |-> ""]
             ELSE /\ inflight' = inflight
                  /\ outcome' = rejectOpen(g.reg[n], now)
          /\ streak' = [streak EXCEPT ![n] = StreakAfter(g.reg[n], x.brk, @, "other")]
    /\ UNCHANGED <<now, timers, cacheVars, perfVars>>

(***************************************************************************)
(* The registry singleton, empty at start; its breakers take calls.        *)
(***************************************************************************)
\* the options callers of getOrCreate pass: none, or one that opens at once
RegistryOptions ==
    { Undefined,
      [failureThreshold |-> 1, successThreshold |-> 1, timeout |-> 1, resetTimeout |-> 2] }

InitRegistry ==
    /\ now = 0
    /\ breakers = [n \in Names |-> NoBreaker]
    /\ created = 0
    /\ inflight = EmptyBag
    /\ timers = EmptyBag
    /\ outcome = NoOutcome
    /\ streak = [n \in Names |-> 0]
    /\ issued = 0
    /\ got = 0
    /\ CacheIdle
    /\ PerfIdle

NextRegistry ==
    \/ \E n \in Names, o \in RegistryOptions : GetOrCreate(n, o)
    \/ \E n \in Names : Get(n)
    \/ ResetAll
    \/ \E n \in Names : ProtectedCall(n, Undefined)
    \/ \E op \in BagToSet(inflight), r \in Results : OperationSucceeds(op, r)
    \/ \E op \in BagToSet(inflight), e \in Errors : OperationFails(op, e)

SpecRegistry == InitRegistry /\ [][NextRegistry]_vars

(***************************************************************************)
(* Actions of the cache.                                                   *)
(***************************************************************************)
CacheGet(k) ==
    /\ calls < MaxCalls
    /\ calls' = calls + 1
    /\ LET x == cacheGet(cache, stats, k, now) IN
       /\ cache' = x.cache
       /\ stats' = x.stats
       /\ ret' = [op |-> "get", key |-> k, val |-> x.ret]
    /\ UNCHANGED <<now, outcome, breakerVars, cacheOpts, sweep, promised, perfVars>>

CacheSet(k, v, ttl) ==
    /\ calls < MaxCalls
    /\ calls' = calls + 1
    /\ LET x == cacheSet(cache, stats, cacheOpts, k, v, ttl, now) IN
       /\ cache' = x.cache
       /\ stats' = x.stats
       /\ promised' =
             [j \in Keys |->
                IF j = k
                THEN IF ttl # Undefined /\ ttl.ms > 0
                     THEN [due |-> now + ttl.ms, v |-> v]
                     ELSE NoPromise
                ELSE IF HasKey(cache, j) /\ ~HasKey(x.cache, j)
                     THEN NoPromise
                     ELSE promised[j]]
    /\ ret' = NoCall
    /\ UNCHANGED <<now, outcome, breakerVars, cacheOpts, sweep, perfVars>>

CacheDelete(k) ==
    /\ calls < MaxCalls
    /\ calls' = calls + 1
    /\ LET x == cacheDelete(cache, k) IN
       /\ cache' = x.cache
       /\ ret' = NoCall
    /\ promised' = [promised EXCEPT ![k] = NoPromise]
    /\ UNCHANGED <<now, outcome, breakerVars, cacheOpts, stats, sweep, perfVars>>

CacheClear ==
    /\ calls < MaxCalls
    /\ calls' = calls + 1
    /\ LET x == cacheClear(cache, stats) IN
       /\ cache' = x.cache
       /\ stats' = x.stats
    /\ promised' = [k \in Keys |-> NoPromise]
    /\ ret' = NoCall
    /\ UNCHANGED <<now, outcome, breakerVars, cacheOpts, sweep, perfVars>>

CacheSweep ==
    /\ sweep.running
    /\ sweep.due <= now
    /\ cache' = cleanup(cache, now)
    /\ sweep' = [sweep EXCEPT !.due = now + cacheOpts.cleanupInterval]
    /\ ret' = NoCall
    /\ UNCHANGED <<now, outcome, breakerVars, cacheOpts, stats, calls, promised, perfVars>>

CacheStop ==
    /\ sweep.running
    /\ sweep' = [sweep EXCEPT !.running = FALSE]
    /\ ret' = NoCall
    /\ UNCHANGED <<now, outcome, breakerVars, cacheOpts, cache, stats, calls, promised, perfVars>>

(***************************************************************************)
(* One cache, constructed (createCache) with one of the option sets.       *)
(***************************************************************************)
InitCache ==
    /\ now = 0
    /\ outcome = NoOutcome
    /\ breakers = [n \in Names |-> NoBreaker]
    /\ created = 0
    /\ inflight = EmptyBag
    /\ timers = EmptyBag
    /\ streak = [n \in Names |-> 0]
    /\ issued = 0
    /\ got = 0
    /\ cacheOpts \in CacheOptionChoices
    /\ cache = <<>>
    /\ stats = ZeroStats
    /\ sweep = [running |-> TRUE, due |-> cacheOpts.cleanupInterval]
    /\ ret = NoCall
    /\ calls = 0
    /\ promised = [k \in Keys |-> NoPromise]
    /\ PerfIdle

NextCache ==
    \/ \E k \in Keys : CacheGet(k)
    \/ \E k \in Keys, v \in Values, ttl \in TtlArgs : CacheSet(k, v, ttl)
    \/ \E k \in Keys : CacheDelete(k)
    \/ CacheClear
    \/ CacheSweep
    \/ CacheStop
    \/ Tick

SpecCache == InitCache /\ [][NextCache]_vars

(***************************************************************************)
(* What a caller observes of one object over time.  A run follows one      *)
(* breaker, or it follows one cache: it starts with the one or the other   *)
(* constructed and takes the steps of that object only.  The counters and  *)
(* timestamps observed do not depend on the values stored, so the cache    *)
(* stores one value, with the default time to live or a short one.         *)
(***************************************************************************)
InitObserved == InitBreaker \/ InitCache

ObservedTtls == {Undefined, Ms(1)}

NextObservedCache ==
    \/ \E k \in Keys : CacheGet(k)
    \/ \E k \in Keys, ttl \in ObservedTtls : CacheSet(k, "v1", ttl)
    \/ \E k \in Keys : CacheDelete(k)
    \/ CacheClear
    \/ CacheSweep
    \/ CacheStop
    \/ Tick

NextObserved ==
    \/ Registered("a") /\ NextBreaker
    \/ ~Registered("a") /\ NextObservedCache

SpecObserved == InitObserved /\ [][NextObserved]_vars

(***************************************************************************)
(* class PerformanceProfiler (performance.ts lines 11-84).  A sample is    *)
(* kept as its duration, endTime - startTime on the clock now; the memory  *)
(* and cpu readings and the timestamp it also carries enter none of the    *)
(* statistics modelled here.  floor(n * 0.95) in double arithmetic equals  *)
(* the integer quotient of 95 n by 100 for every n up to the capacity.     *)
(***************************************************************************)
ProfileCapacity == 100

MaxProfiles == 2

\* push followed by a shift of the newest sample instead of the oldest.
pushSample_DropsNewest(profileArray, metrics) ==
    LET pushed == Append(profileArray, metrics) IN
    IF Len(pushed) > ProfileCapacity THEN SubSeq(pushed, 1, Len(pushed) - 1) ELSE pushed

\* profileArray.push(metrics); if (profileArray.length > 100) profileArray.shift()
pushSample(profileArray, metrics) ==
    LET pushed == Append(profileArray, metrics) IN
    IF Len(pushed) > ProfileCapacity THEN Tail(pushed) ELSE pushed

\* Array.prototype.sort((a, b) => a - b)
sortAscending(a) == SortSeq(a, LAMBDA x, y : x < y)

RECURSIVE sum(_)
sum(a) == IF a = <<>> THEN 0 ELSE Head(a) + sum(Tail(a))

\* getProfileStats that reads the durations in stored order, without the sort.
getProfileStats_Unsorted(profs) ==
    IF Len(profs) = 0 THEN NullStats
    ELSE LET durations == [i \in 1..Len(profs) |-> profs[i].duration] IN
         [count |-> Len(profs),
          avgDuration |-> divide(sum(durations), Len(durations)),
          minDuration |-> durations[1],
          maxDuration |-> durations[Len(durations)],
          p95Duration |-> durations[((Len(durations) * 95) \div 100) + 1]]

getProfileStats(profs) ==
    IF Len(profs) = 0 THEN NullStats
    ELSE LET durations == sortAscending([i \in 1..Len(profs) |-> profs[i].duration]) IN
         [count |-> Len(profs),
          avgDuration |-> divide(sum(durations), Len(durations)),
          minDuration |-> durations[1],
          maxDuration |-> durations[Len(durations)],
          p95Duration |-> durations[((Len(durations) * 95) \div 100) + 1]]

StartProfile(l) ==
    /\ started < MaxProfiles
    /\ started' = started + 1
    /\ pendingProfiles' = pendingProfiles (+) SetToBag({[label |-> l, startTime |-> now]})
    /\ UNCHANGED <<now, outcome, breakerVars, cacheVars, serviceVars, profiles, completed, pstats,
                   benchVars, detectorVars>>

\* a call of the function startProfile returned
EndProfile(p) ==
    /\ BagIn(p, pendingProfiles)
    /\ LET metrics == [duration |-> now - p.startTime] IN
       /\ profiles' = [profiles EXCEPT ![p.label] = pushSample(@, metrics)]
       /\ completed' = [completed EXCEPT ![p.label] = Append(@, metrics)]
    /\ pendingProfiles' = pendingProfiles (-) SetToBag({p})
    /\ UNCHANGED <<now, outcome, breakerVars, cacheVars, serviceVars, started, pstats,
                   benchVars, detectorVars>>

GetProfileStats(l) ==
    /\ pstats' = [label |-> l, val |-> getProfileStats(profiles[l])]
    /\ UNCHANGED <<now, outcome, breakerVars, cacheVars, serviceVars, profiles, pendingProfiles,
                   completed, started, benchVars, detectorVars>>

(***************************************************************************)
(* The profiler in a process that has already recorded samples for label   *)
(* "x": none, a few, or a buffer at or just below its capacity, with       *)
(* durations in rising or in falling order.                                *)
(***************************************************************************)
Ramp(n) == [i \in 1..n |-> [duration |-> 10 * i]]
RampDown(n) == [i \in 1..n |-> [duration |-> 10 * (n + 1 - i)]]
RecordedLengths == {0, 1, 10, 20, 21, 99, 100}
RecordedBuffers ==
    {Ramp(n) : n \in RecordedLengths} \cup {RampDown(n) : n \in RecordedLengths}

InitProfiler ==
    /\ now = 0
    /\ outcome = NoOutcome
    /\ breakers = [n \in Names |-> NoBreaker]
    /\ created = 0
    /\ inflight = EmptyBag
    /\ timers = EmptyBag
    /\ streak = [n \in Names |-> 0]
    /\ issued = 0
    /\ got = 0
    /\ CacheIdle
    /\ \E recorded \in RecordedBuffers :
          /\ profiles = [l \in Labels |-> IF l = "x" THEN recorded ELSE <<>>]
          /\ completed = profiles
    /\ pendingProfiles = EmptyBag
    /\ started = 0
    /\ pstats = NoStats
    /\ BenchIdle
    /\ ServiceIdle
    /\ DetectorIdle

NextProfiler ==
    \/ \E l \in Labels : StartProfile(l)
    \/ \E p \in BagToSet(pendingProfiles) : EndProfile(p)
    \/ \E l \in Labels : GetProfileStats(l)
    \/ Tick

SpecProfiler == InitProfiler /\ [][NextProfiler]_vars

(***************************************************************************)
(* class MemoryLeakDetector (performance.ts lines 173-243).  A snapshot is *)
(* kept as its heapUsed, counted in MB; LeakThreshold is 50 * 1024 * 1024  *)
(* bytes in the same unit.  The trend is a quotient of integers, kept as a *)
(* fraction; on whole numbers of bytes the comparison with the threshold   *)
(* gives the same answer in double arithmetic.  The callback of            *)
(* setInterval runs whenever its period has elapsed while the interval is  *)
(* set; the period itself decides nothing here.                            *)
(***************************************************************************)
SnapshotCapacity == 20
TrendWindow == 5
LeakThreshold == 50

MaxSamplings == 5

HeapReadings == {100, 115, 130, 145, 160}

\* this.snapshots.push(usage); if (this.snapshots.length > 20) this.snapshots.shift()
pushSnapshot(snaps, usage) ==
    LET pushed == Append(snaps, usage) IN
    IF Len(pushed) > SnapshotCapacity THEN Tail(pushed) ELSE pushed

\* x * k for a fraction x and an integer k
times(x, k) == IF x.den = 0 THEN x ELSE divide(x.num * k, x.den)

\* x > k for a fraction x and an integer k (false for NaN)
greaterThan(x, k) == x.den > 0 /\ x.num > k * x.den

\* the trend without its scaling by n - 1: the slope alone.
calculateTrend_SlopeOnly(values) ==
    LET n == Len(values)
        sumX == (n * (n - 1)) \div 2
        sumY == sum(values)
        sumXY == sum([i \in 1..n |-> (i - 1) * values[i]])
        sumXX == sum([i \in 1..n |-> (i - 1) * (i - 1)])
    IN divide(n * sumXY - sumX * sumY, n * sumXX - sumX * sumX)

calculateTrend(values) ==
    LET n == Len(values)
        sumX == (n * (n - 1)) \div 2
        sumY == sum(values)
        sumXY == sum([i \in 1..n |-> (i - 1) * values[i]])
        sumXX == sum([i \in 1..n |-> (i - 1) * (i - 1)])
        slope == divide(n * sumXY - sumX * sumY, n * sumXX - sumX * sumX)
    IN times(slope, n - 1)

\* TRUE when checkForLeaks() issues the warning
checkForLeaks(snaps) ==
    IF Len(snaps) < TrendWindow THEN FALSE
    ELSE LET recent == SubSeq(snaps, Len(snaps) - TrendWindow + 1, Len(snaps)) IN
         greaterThan(calculateTrend(recent), LeakThreshold)

DetectorStart ==
    /\ ~interval
    /\ interval' = TRUE
    /\ UNCHANGED <<now, outcome, breakerVars, cacheVars, serviceVars, profilerVars, benchVars,
                   snapshots, warned, sampled>>

DetectorStop ==
    /\ interval
    /\ interval' = FALSE
    /\ UNCHANGED <<now, outcome, breakerVars, cacheVars, serviceVars, profilerVars, benchVars,
                   snapshots, warned, sampled>>

\* the callback of setInterval, with usage the reading of process.memoryUsage()
SamplingTick(usage) ==
    /\ interval
    /\ sampled < MaxSamplings
    /\ sampled' = sampled + 1
    /\ snapshots' = pushSnapshot(snapshots, usage)
    /\ warned' = checkForLeaks(snapshots')
    /\ UNCHANGED <<now, outcome, breakerVars, cacheVars, serviceVars, profilerVars, benchVars, interval>>

(***************************************************************************)
(* The detector before start(), in a process that holds no snapshot yet or *)
(* the snapshots of an earlier run, stopped at or just below the capacity. *)
(***************************************************************************)
Flat(n) == [i \in 1..n |-> 100]
RecordedSnapshots == {<<>>, Flat(SnapshotCapacity - 1), Flat(SnapshotCapacity)}

InitDetector ==
    /\ now = 0
    /\ outcome = NoOutcome
    /\ breakers = [n \in Names |-> NoBreaker]
    /\ created = 0
    /\ inflight = EmptyBag
    /\ timers = EmptyBag
    /\ streak = [n \in Names |-> 0]
    /\ issued = 0
    /\ got = 0
    /\ CacheIdle
    /\ ProfilerIdle
    /\ BenchIdle
    /\ ServiceIdle
    /\ snapshots \in RecordedSnapshots
    /\ interval = FALSE
    /\ warned = FALSE
    /\ sampled = 0

NextDetector ==
    \/ DetectorStart
    \/ DetectorStop
    \/ \E usage \in HeapReadings : SamplingTick(usage)

SpecDetector == InitDetector /\ [][NextDetector]_vars

(***************************************************************************)
(* class LoadTester (performance.ts lines 106-170).  benchmark is one      *)
(* async function: its warmup loop awaits fn one call at a time, then the  *)
(* batch loops run concurrently, each awaiting its own call of fn.  The    *)
(* code between two awaits runs in one step: when a call of fn settles,    *)
(* the loop that awaited it records the outcome and, if it goes on, makes  *)
(* its next call of fn at once.  fn is "succeeds" (never rejects) or       *)
(* "unreliable" (each call resolves or rejects).  The options are given in *)
(* full, so the defaults 100, 10 and 5 are not drawn.                      *)
(***************************************************************************)
MaxIterations == 4
MaxConcurrency == 3
MaxWarmup == 1

BenchOptionChoices ==
    [iterations : 0..MaxIterations, concurrency : 1..MaxConcurrency,
     warmup : 0..MaxWarmup, fn : {"succeeds", "unreliable"}]

\* Math.floor in place of Math.ceil.
batchSize_Floor(opts) == opts.iterations \div opts.concurrency

\* Math.ceil(iterations / concurrency)
batchSize(opts) == (opts.iterations + opts.concurrency - 1) \div opts.concurrency

\* the condition of the loop of batch number batch (from 0) at counter i
loopContinues(opts, batch, i) ==
    i < batchSize(opts) /\ batch * batchSize(opts) + i < opts.iterations

\* const results = [], errors = [], startTime = performance.now(); then every
\* batch function runs up to its first await
beginTimed(opts, t) ==
    [b \in 1..opts.concurrency |->
       [i |-> 0, awaiting |-> loopContinues(opts, b - 1, 0), iterStart |-> t]]

Awaiting(bs) == {b \in 1..Len(bs) : bs[b].awaiting}

Benchmark(opts) ==
    /\ benchPc = "idle"
    /\ benchOpts' = opts
    /\ warmed' = 0
    /\ results' = <<>>
    /\ errors' = 0
    /\ benchRet' = NoReturn
    /\ IF 0 < opts.warmup
       THEN /\ benchPc' = "warmup"
            /\ fnCalls' = [fnCalls EXCEPT !.warmup = @ + 1]
            /\ UNCHANGED <<batches, benchStart>>
       ELSE /\ benchPc' = "timed"
            /\ benchStart' = now
            /\ batches' = beginTimed(opts, now)
            /\ fnCalls' = [fnCalls EXCEPT !.timed = @ + Cardinality(Awaiting(batches'))]
    /\ UNCHANGED <<now, outcome, breakerVars, cacheVars, serviceVars, profilerVars, detectorVars>>

\* the awaited warmup call settles; a rejection is caught and ignored
WarmupSettles(ok) ==
    /\ benchPc = "warmup"
    /\ benchOpts.fn = "succeeds" => ok
    /\ warmed' = warmed + 1
    /\ IF warmed + 1 < benchOpts.warmup
       THEN /\ fnCalls' = [fnCalls EXCEPT !.warmup = @ + 1]
            /\ UNCHANGED <<benchPc, batches, benchStart>>
       ELSE /\ benchPc' = "timed"
            /\ benchStart' = now
            /\ batches' = beginTimed(benchOpts, now)
            /\ fnCalls' = [fnCalls EXCEPT !.timed = @ + Cardinality(Awaiting(batches'))]
    /\ UNCHANGED <<now, outcome, breakerVars, cacheVars, serviceVars, profilerVars, detectorVars,
                   benchOpts, results, errors, benchRet>>

\* the call of fn that batch b awaits settles
FnSettles(b, ok) ==
    /\ benchPc = "timed"
    /\ b \in Awaiting(batches)
    /\ benchOpts.fn = "succeeds" => ok
    /\ IF ok
       THEN results' = Append(results, now - batches[b].iterStart) /\ errors' = errors
       ELSE errors' = errors + 1 /\ results' = results
    /\ LET i == batches[b].i + 1 IN
       IF loopContinues(benchOpts, b - 1, i)
       THEN /\ batches' = [batches EXCEPT ![b] = [i |-> i, awaiting |-> TRUE, iterStart |-> now]]
            /\ fnCalls' = [fnCalls EXCEPT !.timed = @ + 1]
       ELSE /\ batches' = [batches EXCEPT ![b].i = i, ![b].awaiting = FALSE]
            /\ fnCalls' = fnCalls
    /\ UNCHANGED <<now, outcome, breakerVars, cacheVars, serviceVars, profilerVars, detectorVars,
                   benchPc, benchOpts, warmed, benchStart, benchRet>>

\* await Promise.all(batches) resumes and benchmark returns
BenchmarkReturns ==
    /\ benchPc = "timed"
    /\ Awaiting(batches) = {}
    /\ benchPc' = "done"
    /\ LET totalTime == now - benchStart
           sortedResults == sortAscending(results)
       IN benchRet' =
            [totalTime |-> totalTime,
             avgTime |-> divide(sum(results), Len(results)),
             minTime |-> IF Len(sortedResults) = 0 THEN 0 ELSE sortedResults[1],
             maxTime |-> IF Len(sortedResults) = 0 THEN 0
                         ELSE sortedResults[Len(sortedResults)],
             rps |-> times(divide(Len(results), totalTime), 1000),
             errors |-> errors]
    /\ UNCHANGED <<now, outcome, breakerVars, cacheVars, serviceVars, profilerVars, detectorVars,
                   benchOpts, warmed, batches, results, errors, benchStart, fnCalls>>

InitLoadTester ==
    /\ now = 0
    /\ outcome = NoOutcome
    /\ breakers = [n \in Names |-> NoBreaker]
    /\ created = 0
    /\ inflight = EmptyBag
    /\ timers = EmptyBag
    /\ streak = [n \in Names |-> 0]
    /\ issued = 0
    /\ got = 0
    /\ CacheIdle
    /\ PerfIdle

NextLoadTester ==
    \/ \E opts \in BenchOptionChoices : Benchmark(opts)
    \/ \E ok \in BOOLEAN : WarmupSettles(ok)
    \/ \E b \in Awaiting(batches), ok \in BOOLEAN : FnSettles(b, ok)
    \/ BenchmarkReturns
    \/ Tick

SpecLoadTester == InitLoadTester /\ [][NextLoadTester]_vars

(***************************************************************************)
(* The service reads: ResourceService.getAllResources, and in the same     *)
(* words AlertService.getAllAlerts, CostService.getAllCosts and            *)
(* OptimizationService.getAllOptimizations, each with a cache and a        *)
(* breaker name of its own.  One service is modelled: its breaker          *)
(* 'get-resources' is the registry's "a", its key 'all-resources' is "k1". *)
(* The cache is createCache() and the breaker is created by protectedCall  *)
(* without options, so both have the defaults, in milliseconds.  A read    *)
(* runs up to its first await in the step that calls it: getOrCreate,      *)
(* execute's admission and cache.get.  It resumes after the await, and     *)
(* once more when the fetch it awaits settles; cache.set, the return and   *)
(* the breaker's onSuccess/onFailure follow the fetch without a gap.       *)
(***************************************************************************)
MaxReads == 6

ServiceName == "a"
ServiceKey == "k1"
\* the instants the clock is read at: the start, the end of the breaker's
\* open timeout, and the last instant before and the first after the expiry
\* of an entry stored at the start
ServiceInstants ==
    {0, DefaultOptions.timeout, DefaultCacheOptions.ttl, DefaultCacheOptions.ttl + 1}

\* if (cached) with the test dropped.
isCached_Never(cached) == FALSE

\* if (cached): null is falsy, an array is truthy
isCached(cached) == cached # Null

RemoveAt(seq, i) == SubSeq(seq, 1, i - 1) \o SubSeq(seq, i + 1, Len(seq))

GetAllResources ==
    /\ issued < MaxReads
    /\ Len(reads) < MaxInflight
    /\ issued' = issued + 1
    /\ LET g == getOrCreate(breakers, created, ServiceName, Undefined)
           x == execute(g.reg[ServiceName], now)
           i == IndexOf(cache, ServiceKey)
           held == IF i = 0 THEN FALSE ELSE now <= cache[i].expiry
           c == cacheGet(cache, stats, ServiceKey, now)
       IN /\ created' = g.cnt
          /\ got' = g.ret
          /\ breakers' = [g.reg EXCEPT ![ServiceName] = x.brk]
          /\ streak' = [streak EXCEPT
                          ![ServiceName] = StreakAfter(g.reg[ServiceName], x.brk, @, "other")]
          /\ IF x.admitted
             THEN /\ cache' = c.cache
                  /\ stats' = c.stats
                  /\ ret' = [op |-> "get", key |-> ServiceKey, val |-> c.ret]
                  /\ reads' = Append(reads,
                                [pc |-> "got", cached |-> c.ret, held |-> held,
                                 heldVal |-> IF held THEN cache[i].value ELSE "",
                                 fetches |-> 0])
                  /\ outcome' = [kind |-> "pending", val |-> ""]
                  /\ served' = served
             ELSE /\ UNCHANGED <<cache, stats, ret, reads>>
                  /\ outcome' = rejectOpen(g.reg[ServiceName], now)
                  /\ served' = [kind |-> "rejected", val |-> "", held |-> held,
                                heldVal |-> IF held THEN cache[i].value ELSE "",
                                fetches |-> 0]
    /\ UNCHANGED <<now, inflight, timers, cacheOpts, sweep, calls, promised,
                   profilerVars, benchVars, detectorVars, attempts>>

\* the read continues after await this.cache.get(...)
ReadResumes(i) ==
    /\ i \in 1..Len(reads)
    /\ reads[i].pc = "got"
    /\ IF isCached(reads[i].cached)
       THEN /\ reads' = RemoveAt(reads, i)
            /\ breakers' = [breakers EXCEPT ![ServiceName] = onSuccess(@)]
            /\ streak' = [streak EXCEPT
                            ![ServiceName] = StreakAfter(breakers[ServiceName],
                                                         breakers'[ServiceName], @, "success")]
            /\ outcome' = returnResult(reads[i].cached)
            /\ served' = [kind |-> "returned", val |-> reads[i].cached,
                          held |-> reads[i].held, heldVal |-> reads[i].heldVal,
                          fetches |-> reads[i].fetches]
       ELSE /\ reads' = [reads EXCEPT ![i].pc = "fetching", ![i].fetches = @ + 1]
            /\ UNCHANGED <<breakers, streak, outcome, served>>
    /\ UNCHANGED <<now, created, inflight, timers, issued, got, cacheVars,
                   profilerVars, benchVars, detectorVars, attempts>>

\* await this.fetchResources() settles with the array v
FetchResolves(i, v) ==
    /\ i \in 1..Len(reads)
    /\ reads[i].pc = "fetching"
    /\ LET x == cacheSet(cache, stats, cacheOpts, ServiceKey, v, Undefined, now) IN
       /\ cache' = x.cache
       /\ stats' = x.stats
    /\ reads' = RemoveAt(reads, i)
    /\ breakers' = [breakers EXCEPT ![ServiceName] = onSuccess(@)]
    /\ streak' = [streak EXCEPT
                    ![ServiceName] = StreakAfter(breakers[ServiceName],
                                                 breakers'[ServiceName], @, "success")]
    /\ outcome' = returnResult(v)
    /\ served' = [kind |-> "returned", val |-> v,
                  held |-> reads[i].held, heldVal |-> reads[i].heldVal,
                  fetches |-> reads[i].fetches]
    /\ UNCHANGED <<now, created, inflight, timers, issued, got, cacheOpts, sweep, ret,
                   calls, promised, profilerVars, benchVars, detectorVars, attempts>>

\* await this.fetchResources() settles with the error e
FetchRejects(i, e) ==
    /\ i \in 1..Len(reads)
    /\ reads[i].pc = "fetching"
    /\ LET x == onFailure(breakers[ServiceName], now) IN
       /\ BagCardinality(timers) + Len(x.sched) <= MaxTimers
       /\ breakers' = [breakers EXCEPT ![ServiceName] = x.brk]
       /\ timers' = AddTimers(timers, ServiceName, x.sched)
    /\ reads' = RemoveAt(reads, i)
    /\ streak' = [streak EXCEPT
                    ![ServiceName] = StreakAfter(breakers[ServiceName],
                                                 breakers'[ServiceName], @, "fail")]
    /\ outcome' = rethrow(e)
    /\ served' = [kind |-> "raised", val |-> e,
                  held |-> reads[i].held, heldVal |-> reads[i].heldVal,
                  fetches |-> reads[i].fetches]
    /\ UNCHANGED <<now, created, inflight, issued, got, cacheVars,
                   profilerVars, benchVars, detectorVars, attempts>>

Elapse(t) ==
    /\ now < t
    /\ now' = t
    /\ UNCHANGED <<outcome, breakerVars, cacheVars, perfVars>>

InitService ==
    /\ now = 0
    /\ outcome = NoOutcome
    /\ breakers = [n \in Names |-> NoBreaker]
    /\ created = 0
    /\ inflight = EmptyBag
    /\ timers = EmptyBag
    /\ streak = [n \in Names |-> 0]
    /\ issued = 0
    /\ got = 0
    /\ CacheIdle
    /\ PerfIdle

NextService ==
    \/ GetAllResources
    \/ \E i \in 1..Len(reads) : ReadResumes(i)
    \/ \E i \in 1..Len(reads), v \in Values : FetchResolves(i, v)
    \/ \E i \in 1..Len(reads), e \in Errors : FetchRejects(i, e)
    \/ CacheSweep
    \/ \E tm \in BagToSet(timers) : ResetTimerFires(tm)
    \/ \E t \in ServiceInstants : Elapse(t)

SpecService == InitService /\ [][NextService]_vars

(***************************************************************************)
(* Properties of the circuit breaker (checked under SpecBreaker).          *)
(***************************************************************************)
InflightOf(bag, n) ==
    LET S == {op \in BagToSet(bag) : op.name = n} IN
    IF S = {} THEN 0 ELSE BagCardinality([op \in S |-> bag[op]])

\* C1: an execute() made while the breaker is OPEN and Date.now() is strictly
\* before nextAttempt is rejected with the breaker-open error, invokes no
\* operation, and leaves state, nextAttempt, failureCount, successCount,
\* totalFailures and totalSuccesses as they were.
C1_FailFastWhileOpen ==
    [][\A n \in Names :
          (ExecuteCall(n) /\ breakers[n].state = OPEN /\ now < breakers[n].nextAttempt)
          => /\ outcome' = [kind |-> "raised", val |-> "CircuitOpen"]
             /\ inflight' = inflight
             /\ breakers'[n].state = OPEN
             /\ breakers'[n].nextAttempt = breakers[n].nextAttempt
             /\ breakers'[n].failureCount = breakers[n].failureCount
             /\ breakers'[n].successCount = breakers[n].successCount
             /\ breakers'[n].totalFailures = breakers[n].totalFailures
             /\ breakers'[n].totalSuccesses = breakers[n].totalSuccesses]_vars

C1_Witness ==
    /\ outcome = [kind |-> "raised", val |-> "CircuitOpen"]
    /\ breakers["a"].state = OPEN
    /\ now < breakers["a"].nextAttempt
    /\ breakers["a"].totalRequests >= 2
    /\ inflight = EmptyBag

\* C2: in CLOSED the breaker opens exactly on the failure that makes the run of
\* failures without a success reach failureThreshold: a failure completing in
\* CLOSED leaves the state OPEN iff it is the N-th of the run and CLOSED iff it
\* is an earlier one; a success completing in CLOSED keeps CLOSED and sets
\* failureCount to 0; in CLOSED failureCount is the length of the run.
C2_OpensOnNthFailure ==
    /\ [](\A n \in Names :
            (Registered(n) /\ breakers[n].state = CLOSED)
            => /\ breakers[n].failureCount = streak[n]
               /\ streak[n] < breakers[n].options.failureThreshold)
    /\ [][\A op \in BagToSet(inflight) :
            breakers[op.name].state = CLOSED
            => /\ \A e \in Errors :
                    OperationFails(op, e)
                    => /\ (breakers'[op.name].state = OPEN)
                            <=> (streak[op.name] + 1 = breakers[op.name].options.failureThreshold)
                       /\ (breakers'[op.name].state = CLOSED)
                            <=> (streak[op.name] + 1 < breakers[op.name].options.failureThreshold)
               /\ \A r \in Results :
                    OperationSucceeds(op, r)
                    => /\ breakers'[op.name].state = CLOSED
                       /\ breakers'[op.name].failureCount = 0]_vars

C2_Witness ==
    /\ breakers["a"].state = OPEN
    /\ breakers["a"].options.failureThreshold = 2
    /\ streak["a"] = 2
    /\ outcome.kind = "raised"
    /\ outcome.val \in Errors
    /\ breakers["a"].totalSuccesses >= 1

\* C3: an execute() on an OPEN breaker at a time equal to or later than
\* nextAttempt moves the breaker to HALF_OPEN, sets successCount to 0 and
\* invokes the operation of that same call (the call is not rejected).
C3_ProbeAfterTimeout ==
    [][\A n \in Names :
          (ExecuteCall(n) /\ breakers[n].state = OPEN /\ now >= breakers[n].nextAttempt)
          => /\ breakers'[n].state = HALF_OPEN
             /\ breakers'[n].successCount = 0
             /\ outcome'.kind = "pending"
             /\ InflightOf(inflight', n) = InflightOf(inflight, n) + 1]_vars

C3_Witness ==
    /\ breakers["a"].state = HALF_OPEN
    /\ outcome.kind = "pending"
    /\ breakers["a"].successCount = 0
    /\ breakers["a"].totalSuccesses = 1
    /\ breakers["a"].totalFailures = 1
    /\ breakers["a"].options.successThreshold = 2
    /\ now = breakers["a"].nextAttempt
    /\ InflightOf(inflight, "a") = 1

\* C4: a success completing in HALF_OPEN counts one more success; the breaker
\* stays HALF_OPEN while the count is below successThreshold and closes, with
\* failureCount = 0 and successCount = 0, on the success that reaches it; a
\* HALF_OPEN breaker never holds successThreshold successes.
C4_HalfOpenSuccesses ==
    /\ [](\A n \in Names :
            (Registered(n) /\ breakers[n].state = HALF_OPEN)
            => breakers[n].successCount < breakers[n].options.successThreshold)
    /\ [][\A op \in BagToSet(inflight), r \in Results :
            (OperationSucceeds(op, r) /\ breakers[op.name].state = HALF_OPEN)
            => IF breakers[op.name].successCount + 1
                    < breakers[op.name].options.successThreshold
               THEN /\ breakers'[op.name].state = HALF_OPEN
                    /\ breakers'[op.name].successCount
                          = breakers[op.name].successCount + 1
                    /\ breakers'[op.name].failureCount = breakers[op.name].failureCount
               ELSE /\ breakers'[op.name].state = CLOSED
                    /\ breakers'[op.name].failureCount = 0
                    /\ breakers'[op.name].successCount = 0]_vars

C4_Witness ==
    /\ breakers["a"].state = CLOSED
    /\ breakers["a"].options.successThreshold = 2
    /\ breakers["a"].totalSuccesses = 2
    /\ breakers["a"].totalFailures = 0
    /\ breakers["a"].nextAttempt > 0
    /\ outcome.kind = "returned"
    /\ breakers["a"].successCount = 0

\* C5: a failure completing in HALF_OPEN opens the breaker at once, whatever
\* failureCount and successCount are, with nextAttempt = the time of the
\* failure + timeout, so that execute() at any earlier time is rejected.
C5_HalfOpenFailureReopens ==
    [][\A op \in BagToSet(inflight), e \in Errors :
          (OperationFails(op, e) /\ breakers[op.name].state = HALF_OPEN)
          => /\ breakers'[op.name].state = OPEN
             /\ breakers'[op.name].nextAttempt = now + breakers[op.name].options.timeout
             /\ \A t \in now'..(breakers'[op.name].nextAttempt - 1) :
                   ~execute(breakers'[op.name], t).admitted]_vars

C5_Witness ==
    /\ breakers["a"].state = OPEN
    /\ outcome.kind = "raised"
    /\ outcome.val \in Errors
    /\ breakers["a"].failureCount = 1
    /\ breakers["a"].options.failureThreshold = 2
    /\ breakers["a"].successCount = 1
    /\ breakers["a"].nextAttempt = now + breakers["a"].options.timeout
    /\ now > 0

\* C6: reset() leaves state = CLOSED and failureCount, successCount,
\* totalRequests, totalFailures and totalSuccesses at 0 from any state, and a
\* second reset() changes nothing.
C6_ResetZeroesAndIsIdempotent ==
    [][\A n \in Names :
          Reset(n)
          => /\ breakers'[n].state = CLOSED
             /\ breakers'[n].failureCount = 0
             /\ breakers'[n].successCount = 0
             /\ breakers'[n].totalRequests = 0
             /\ breakers'[n].totalFailures = 0
             /\ breakers'[n].totalSuccesses = 0
             /\ reset(breakers'[n]) = breakers'[n]]_vars

C6_Witness ==
    /\ outcome.kind = "reset"
    /\ breakers["a"].state = CLOSED
    /\ breakers["a"].totalRequests = 0
    /\ breakers["a"].nextAttempt > now
    /\ InflightOf(inflight, "a") = 2

\* C7: when an admitted operation raises e, execute() raises that same e and
\* the failure is recorded in the same step (totalFailures and failureCount one
\* higher, HALF_OPEN -> OPEN, CLOSED -> OPEN at the threshold, otherwise the
\* state kept); when it returns r, execute() returns r.
C7_ErrorsPassThrough ==
    [][\A op \in BagToSet(inflight) :
          /\ \A e \in Errors :
                OperationFails(op, e)
                => /\ outcome' = [kind |-> "raised", val |-> e]
                   /\ breakers'[op.name].totalFailures = breakers[op.name].totalFailures + 1
                   /\ breakers'[op.name].failureCount = breakers[op.name].failureCount + 1
                   /\ breakers'[op.name].state =
                         IF breakers[op.name].state = HALF_OPEN THEN OPEN
                         ELSE IF /\ breakers[op.name].state = CLOSED
                                 /\ breakers[op.name].failureCount + 1
                                       >= breakers[op.name].options.failureThreshold
                              THEN OPEN
                              ELSE breakers[op.name].state
          /\ \A r \in Results :
                OperationSucceeds(op, r) => outcome' = [kind |-> "returned", val |-> r]]_vars

C7_Witness ==
    /\ outcome = [kind |-> "raised", val |-> "e2"]
    /\ breakers["a"].totalFailures = 2
    /\ breakers["a"].failureCount = 2
    /\ breakers["a"].state = OPEN

\* C8: every execute() adds exactly one to totalRequests when it is called,
\* rejected or admitted, and the later completion of an admitted operation
\* (success or failure) adds nothing more.
C8_EveryCallCounted ==
    [][/\ \A n \in Names :
             ExecuteCall(n) => breakers'[n].totalRequests = breakers[n].totalRequests + 1
       /\ \A op \in BagToSet(inflight) :
             ((\E r \in Results : OperationSucceeds(op, r))
               \/ (\E e \in Errors : OperationFails(op, e)))
             => breakers'[op.name].totalRequests = breakers[op.name].totalRequests]_vars

C8_Witness ==
    /\ outcome = [kind |-> "raised", val |-> "CircuitOpen"]
    /\ breakers["a"].totalRequests = 3
    /\ breakers["a"].totalFailures = 1
    /\ breakers["a"].totalSuccesses = 1

(***************************************************************************)
(* Properties of the registry (checked under SpecRegistry).                *)
(***************************************************************************)
\* C9: the registry holds at most one breaker per name: one breaker has been
\* constructed per registered name, no step (getOrCreate, get, resetAll or a
\* call) removes a registered breaker or changes its identity or its options,
\* and getOrCreate for a registered name returns the registered instance.
C9_OneInstancePerName ==
    /\ [](/\ created = Cardinality({n \in Names : Registered(n)})
          /\ \A n, m \in Names :
                (Registered(n) /\ Registered(m) /\ n # m)
                => breakers[n].id # breakers[m].id)
    /\ [][/\ \A n \in Names :
                Registered(n)
                => /\ breakers'[n] # NoBreaker
                   /\ breakers'[n].id = breakers[n].id
                   /\ breakers'[n].options = breakers[n].options
          /\ \A n \in Names, o \in RegistryOptions :
                (GetOrCreate(n, o) /\ Registered(n)) => got' = breakers[n].id]_vars

C9_Witness ==
    /\ outcome.kind = "getOrCreate"
    /\ outcome.val # Undefined
    /\ Registered("a")
    /\ got = breakers["a"].id
    /\ breakers["a"].options = DefaultOptions
    /\ breakers["a"].totalRequests >= 1
    /\ created = 2

(***************************************************************************)
(* Properties of the cache (checked under SpecCache).                      *)
(***************************************************************************)
\* C10: after set(k, v, ttl) with ttl > 0 at time t, and no later set, delete,
\* clear or eviction of k, get(k) returns v at any time up to t + ttl and
\* null at any time after t + ttl.
C10_TtlHonoured ==
    [][\A k \in Keys :
          (CacheGet(k) /\ promised[k] # NoPromise)
          => ret' = [op |-> "get", key |-> k,
                     val |-> IF now <= promised[k].due THEN promised[k].v ELSE Null]]_vars

C10_Witness ==
    /\ ret = [op |-> "get", key |-> "k1", val |-> Null]
    /\ promised["k1"] # NoPromise
    /\ promised["k1"].due < now
    /\ promised["k1"].due > 0
    /\ stats.hits = 1
    /\ stats.misses = 1

\* C11: set with a new key on a cache holding exactly maxSize entries removes
\* exactly one stored entry, one whose lastAccessed is smallest among the
\* stored entries, keeps every other entry, and adds one to evictions.
C11_EvictsLeastRecentlyUsed ==
    [][\A k \in Keys, v \in Values, ttl \in TtlArgs :
          (CacheSet(k, v, ttl) /\ ~HasKey(cache, k) /\ Len(cache) = cacheOpts.maxSize)
          => /\ \E i \in 1..Len(cache) :
                   /\ \A j \in 1..Len(cache) :
                         cache[i].lastAccessed <= cache[j].lastAccessed
                   /\ ~HasKey(cache', cache[i].key)
                   /\ \A j \in 1..Len(cache) :
                         j # i => /\ HasKey(cache', cache[j].key)
                                  /\ cache'[IndexOf(cache', cache[j].key)] = cache[j]
             /\ stats'.evictions = stats.evictions + 1]_vars

\* C12: with maxSize >= 1 the number of stored entries never exceeds maxSize,
\* whatever set, get, delete, clear and sweep calls are made and at whatever
\* times, several calls within one clock tick included.
C12_SizeNeverExceedsMaxSize ==
    cacheOpts.maxSize >= 1 => Len(cache) <= cacheOpts.maxSize

\* C13: get(k) is a miss exactly when k is not stored or the time is strictly
\* after the entry's expiry.  A miss returns null and adds one to misses, and
\* removes the entry when it was stored.  A hit returns the stored value, adds
\* one to hits and to the entry's accessCount and sets its lastAccessed to the
\* time of the call.  Every get counts as exactly one hit or one miss, and no
\* other entry is touched.
C13_GetHitOrMiss ==
    [][\A k \in Keys :
          CacheGet(k)
          => LET i == IndexOf(cache, k)
                 miss == IF i = 0 THEN TRUE ELSE now > cache[i].expiry
             IN /\ miss => /\ ret'.val = Null
                            /\ stats'.misses = stats.misses + 1
                            /\ stats'.hits = stats.hits
                            /\ ~HasKey(cache', k)
                /\ ~miss => /\ ret'.val = cache[i].value
                             /\ stats'.hits = stats.hits + 1
                             /\ stats'.misses = stats.misses
                             /\ Len(cache') = Len(cache)
                             /\ cache'[i] = [key |-> k,
                                             value |-> cache[i].value,
                                             expiry |-> cache[i].expiry,
                                             lastAccessed |-> now,
                                             accessCount |-> cache[i].accessCount + 1]
                /\ \A j \in 1..Len(cache) :
                      cache[j].key # k
                      => /\ HasKey(cache', cache[j].key)
                         /\ cache'[IndexOf(cache', cache[j].key)] = cache[j]
                /\ stats'.evictions = stats.evictions]_vars

C13_Witness ==
    /\ ret = [op |-> "get", key |-> "k1", val |-> Null]
    /\ promised["k1"] # NoPromise
    /\ promised["k1"].due < now
    /\ ~HasKey(cache, "k1")
    /\ HasKey(cache, "k2")
    /\ stats.hits = 0
    /\ stats.misses = 1

\* C14: in every reachable state getStats() reports hitRate = hits / (hits +
\* misses) when a get has been counted and 0 when none has (a fresh cache, or
\* right after clear), and size = the number of keys stored.
C14_HitRate ==
    LET s == getStats(cache, stats)
        n == stats.hits + stats.misses
    IN /\ s.size = Cardinality({cache[i].key : i \in 1..Len(cache)})
       /\ n > 0 => /\ s.hitRate.den > 0
                    /\ s.hitRate.num * n = stats.hits * s.hitRate.den
       /\ n = 0 => s.hitRate = Zero

C14_Witness ==
    /\ stats.hits = 1
    /\ stats.misses = 1
    /\ getStats(cache, stats).hitRate = [num |-> 1, den |-> 2]
    /\ getStats(cache, stats).size = 1

\* C15: a tick of the background sweep removes every entry whose expiry is
\* earlier than the time of the tick, read or not, keeps every entry whose
\* expiry is not yet passed, and leaves hits, misses and evictions unchanged.
C15_SweepRemovesExpired ==
    [][CacheSweep
       => /\ cache' = SelectSeq(cache, LAMBDA e : ~(e.expiry < now))
          /\ stats'.hits = stats.hits
          /\ stats'.misses = stats.misses
          /\ stats'.evictions = stats.evictions]_vars

C15_Witness ==
    /\ cache = <<>>
    /\ promised["k1"] # NoPromise
    /\ promised["k1"].due < now
    /\ promised["k2"] # NoPromise
    /\ promised["k2"].due < now
    /\ stats = ZeroStats
    /\ sweep.due > cacheOpts.cleanupInterval

(***************************************************************************)
(* Properties of the profiler (checked under SpecProfiler).                *)
(***************************************************************************)
Min(a, b) == IF a < b THEN a ELSE b

\* C17: for every label, whatever number n of profiles has ended, the buffer
\* holds at most 100 samples and equals the last min(n, 100) samples in the
\* order the profiles ended: a full buffer drops its oldest sample first.
C17_RingBuffer ==
    \A l \in Labels :
       LET n == Len(completed[l]) IN
       /\ Len(profiles[l]) <= 100
       /\ Len(profiles[l]) = Min(n, 100)
       /\ \A i \in 1..Len(profiles[l]) :
             profiles[l][i] = completed[l][n - Len(profiles[l]) + i]

C17_Witness ==
    /\ Len(completed["x"]) = 102
    /\ Len(profiles["x"]) = 100
    /\ profiles["x"][1].duration = 30
    /\ profiles["x"][99].duration = 2
    /\ profiles["x"][100].duration = 0
    /\ Len(profiles["y"]) = 0

\* C18: for a label with n >= 1 stored samples getProfileStats returns count =
\* n, the smallest and the largest stored duration as minDuration and
\* maxDuration, and as p95Duration the element at index floor(0.95 n) of the
\* durations in ascending order, an index within 0..n-1; for the durations
\* 10, 20, ..., 100 that is 100.  For a label without samples it returns null.
C18_ProfileStats ==
    /\ getProfileStats(Ramp(10)).p95Duration = 100
    /\ [][\A l \in Labels :
             GetProfileStats(l)
             => LET n == Len(profiles[l])
                    D == {profiles[l][i].duration : i \in 1..n}
                    r == pstats'.val
                    idx == (95 * n) \div 100
                IN /\ n = 0 => r = NullStats
                   /\ n >= 1
                      => /\ r # NullStats
                         /\ r.count = n
                         /\ r.minDuration \in D
                         /\ \A d \in D : r.minDuration <= d
                         /\ r.maxDuration \in D
                         /\ \A d \in D : d <= r.maxDuration
                         /\ idx \in 0..(n - 1)
                         /\ r.p95Duration \in D
                         /\ Cardinality({i \in 1..n :
                                profiles[l][i].duration < r.p95Duration}) <= idx
                         /\ Cardinality({i \in 1..n :
                                profiles[l][i].duration <= r.p95Duration}) > idx]_vars

C18_Witness ==
    /\ pstats.label = "x"
    /\ pstats.val # NullStats
    /\ pstats.val.count = 22
    /\ pstats.val.minDuration = 1
    /\ pstats.val.p95Duration = 200
    /\ pstats.val.maxDuration = 210
    /\ profiles["x"][1].duration = 210
    /\ Len(profiles["x"]) = 22

(***************************************************************************)
(* Properties of the leak detector (checked under SpecDetector).           *)
(***************************************************************************)
\* the last TrendWindow snapshots
Recent(snaps) == SubSeq(snaps, Len(snaps) - 4, Len(snaps))

\* C20: a sampling tick issues the warning exactly when at least 5 snapshots
\* are stored and 4 times the least-squares slope of the last 5 heapUsed
\* values exceeds 50 MB (the slope over x = 0..4 is the sum of (x - 2) y over
\* 10).  Five snapshots rising by 15 MB each give the warning, a flat or
\* declining window never does, and the buffer never holds more than 20
\* snapshots.
C20_LeakWarning ==
    /\ [](Len(snapshots) <= 20)
    /\ [][\A usage \in HeapReadings :
             SamplingTick(usage)
             => LET n == Len(snapshots')
                    y == Recent(snapshots')
                IN /\ n < 5 => ~warned'
                   /\ n >= 5
                      => /\ warned' <=>
                              4 * (2 * y[5] + y[4] - y[2] - 2 * y[1]) > 50 * 10
                         /\ (\A i \in 1..4 : y[i + 1] = y[i] + 15) => warned'
                         /\ (\A i \in 1..4 : y[i + 1] <= y[i]) => ~warned']_vars

C20_Witness ==
    /\ warned
    /\ snapshots = <<100, 115, 130, 145, 160>>
    /\ sampled = 5
    /\ interval

(***************************************************************************)
(* Cancelling the background timers.                                       *)
(***************************************************************************)
\* a call of a public method of the breaker after which one pending copy of
\* the timer tm is gone
CancelledByCall(tm) ==
    /\ \/ ExecuteCall(tm.name)
       \/ ForceOpen(tm.name)
       \/ ForceClose(tm.name)
       \/ Reset(tm.name)
    /\ CopiesIn(tm, timers') < CopiesIn(tm, timers)

\* C16: each of the three background timers can be cancelled by an explicit
\* stop.  After cache.stop() no sweep runs again; after
\* MemoryLeakDetector.stop(), and until a new start(), no sampling tick runs;
\* and whenever a failure-count reset timer of a breaker is pending, some call
\* on the breaker cancels it, so that it need not fire after the owner of the
\* breaker has shut down.
C16_TimersCancellable ==
    /\ [][~sweep.running => ~CacheSweep]_vars
    /\ [][~interval => \A usage \in HeapReadings : ~SamplingTick(usage)]_vars
    /\ [](\A tm \in BagToSet(timers) : ENABLED CancelledByCall(tm))

(***************************************************************************)
(* Properties of the load tester (checked under SpecLoadTester).           *)
(***************************************************************************)
\* the number of rounds the batch loops make for the given options
TimedRounds(opts) ==
    Cardinality({bi \in (0..(opts.concurrency - 1)) \X (0..opts.iterations) :
                   loopContinues(opts, bi[1], bi[2])})

\* C19: for iterations >= 0 and concurrency >= 1, whether or not concurrency
\* divides iterations, the timed phase calls fn exactly iterations times and
\* counts each call once, as a result or as an error: when benchmark returns,
\* results and errors together number iterations.  With an fn that always
\* succeeds there is no error and there are iterations results (20 for
\* iterations 20 and concurrency 4).
C19_EveryCallCountedOnce ==
    /\ TimedRounds([iterations |-> 20, concurrency |-> 4, warmup |-> 0, fn |-> "succeeds"]) = 20
    /\ fnCalls.timed = Len(results) + errors + Cardinality(Awaiting(batches))
    /\ fnCalls.timed <= benchOpts.iterations
    /\ benchOpts.fn = "succeeds" => errors = 0
    /\ benchPc = "done"
       => /\ fnCalls.timed = benchOpts.iterations
          /\ Len(results) + errors = benchOpts.iterations
          /\ benchRet.errors = errors
          /\ benchOpts.fn = "succeeds" => Len(results) = benchOpts.iterations

C19_Witness ==
    /\ benchPc = "done"
    /\ benchOpts.iterations = 4
    /\ benchOpts.concurrency = 3
    /\ benchOpts.fn = "unreliable"
    /\ fnCalls = [warmup |-> 1, timed |-> 4]
    /\ errors = 1
    /\ Len(results) = 3
    /\ benchRet.errors = 1

(***************************************************************************)
(* The administrative overrides, the reset timers and the invariants of    *)
(* one breaker (checked under SpecBreaker).                                *)
(***************************************************************************)
\* C21: forceOpen() from any state sets state = OPEN and nextAttempt =
\* Date.now() + timeout, so that an execute() at any earlier time is
\* rejected, and leaves failureCount and successCount alone; forceClose()
\* from any state sets state = CLOSED, failureCount = 0 and successCount = 0;
\* both leave totalRequests, totalFailures and totalSuccesses alone.
C21_ForceOpenForceClose ==
    [][\A n \in Names :
          /\ ForceOpen(n)
             => /\ breakers'[n].state = OPEN
                /\ breakers'[n].nextAttempt = now + breakers[n].options.timeout
                /\ \A t \in 0..(MaxTime + 1) :
                      t < now + breakers[n].options.timeout
                      => ~execute(breakers'[n], t).admitted
                /\ breakers'[n].failureCount = breakers[n].failureCount
                /\ breakers'[n].successCount = breakers[n].successCount
                /\ breakers'[n].totalRequests = breakers[n].totalRequests
                /\ breakers'[n].totalFailures = breakers[n].totalFailures
                /\ breakers'[n].totalSuccesses = breakers[n].totalSuccesses
          /\ ForceClose(n)
             => /\ breakers'[n].state = CLOSED
                /\ breakers'[n].failureCount = 0
                /\ breakers'[n].successCount = 0
                /\ breakers'[n].totalRequests = breakers[n].totalRequests
                /\ breakers'[n].totalFailures = breakers[n].totalFailures
                /\ breakers'[n].totalSuccesses = breakers[n].totalSuccesses]_vars

C21_Witness ==
    /\ outcome.kind = "forceOpen"
    /\ now >= 1
    /\ breakers["a"].state = OPEN
    /\ breakers["a"].nextAttempt = now + breakers["a"].options.timeout
    /\ breakers["a"].failureCount >= 1
    /\ breakers["a"].successCount >= 1
    /\ breakers["a"].totalSuccesses >= 1

\* C23: a reset timer that fires sets failureCount to 0 when the breaker is
\* OPEN at that moment and changes nothing when it is HALF_OPEN or CLOSED; it
\* never changes state, nextAttempt, successCount or the cumulative totals,
\* and the timers of other OPEN episodes stay pending.
C23_ResetTimer ==
    [][\A tm \in BagToSet(timers) :
          ResetTimerFires(tm)
          => LET b == breakers[tm.name]
                 c == breakers'[tm.name] IN
             /\ c.failureCount = (IF b.state = OPEN THEN 0 ELSE b.failureCount)
             /\ c.state = b.state
             /\ c.nextAttempt = b.nextAttempt
             /\ c.successCount = b.successCount
             /\ c.totalRequests = b.totalRequests
             /\ c.totalFailures = b.totalFailures
             /\ c.totalSuccesses = b.totalSuccesses
             /\ BagCardinality(timers') = BagCardinality(timers) - 1
             /\ inflight' = inflight]_vars

C23_Witness ==
    /\ outcome.kind = "timer"
    /\ breakers["a"].state = HALF_OPEN
    /\ breakers["a"].failureCount >= 2
    /\ timers # EmptyBag

\* C27: in every reachable state of a breaker the completions counted never
\* exceed the calls counted: totalSuccesses + totalFailures <= totalRequests.
C27_CompletionsWithinRequests ==
    \A n \in Names :
       Registered(n)
       => breakers[n].totalSuccesses + breakers[n].totalFailures
             <= breakers[n].totalRequests

\* C28: an operation admitted while the breaker was CLOSED that completes
\* while the breaker is HALF_OPEN neither increases successCount nor closes
\* the breaker when it succeeds, and does not re-open it when it fails.
C28_StaleCompletionsIgnored ==
    [][\A op \in BagToSet(inflight) :
          (op.admittedIn = CLOSED /\ breakers[op.name].state = HALF_OPEN)
          => /\ (\E r \in Results : OperationSucceeds(op, r))
                => /\ breakers'[op.name].successCount = breakers[op.name].successCount
                   /\ breakers'[op.name].state = HALF_OPEN
             /\ (\E e \in Errors : OperationFails(op, e))
                => breakers'[op.name].state = HALF_OPEN]_vars

\* C29: in every reachable state, a CLOSED breaker has failureCount below
\* failureThreshold and successCount = 0, and a HALF_OPEN breaker has
\* successCount below successThreshold.
C29_CountsBelowThresholds ==
    \A n \in Names :
       Registered(n)
       => LET b == breakers[n] IN
          /\ b.options.failureThreshold >= 1
          /\ b.options.successThreshold >= 1
          /\ b.state = CLOSED
             => (b.failureCount < b.options.failureThreshold /\ b.successCount = 0)
          /\ b.state = HALF_OPEN => b.successCount < b.options.successThreshold

C29_Witness ==
    /\ breakers["a"].state = HALF_OPEN
    /\ breakers["a"].options.successThreshold = 2
    /\ breakers["a"].successCount = 1
    /\ breakers["a"].failureCount >= breakers["a"].options.failureThreshold
    /\ outcome.kind = "returned"

(***************************************************************************)
(* set() on a key that is already stored (checked under SpecCache).        *)
(***************************************************************************)
\* C30: set(k, v) for a key k that is already stored only replaces k's
\* entry: every other stored key stays stored, with its entry as it was, and
\* the evictions counter does not grow, a cache holding exactly maxSize
\* entries included.
C30_OverwriteEvictsNothing ==
    [][\A k \in Keys, v \in Values, ttl \in TtlArgs :
          (CacheSet(k, v, ttl) /\ HasKey(cache, k))
          => /\ \A i \in 1..Len(cache) :
                   cache[i].key # k
                   => /\ HasKey(cache', cache[i].key)
                      /\ cache'[IndexOf(cache', cache[i].key)] = cache[i]
             /\ HasKey(cache', k)
             /\ Len(cache') = Len(cache)
             /\ stats'.evictions = stats.evictions]_vars

(***************************************************************************)
(* The result of a benchmark without a successful call (checked under      *)
(* SpecLoadTester).                                                        *)
(***************************************************************************)
\* C26: when every timed call of benchmark raised an error, and also when
\* iterations = 0, the result has avgTime = 0, minTime = 0 and maxTime = 0,
\* none of them NaN, and errors is the number of timed calls.
C26_DegenerateResultIsZero ==
    (benchPc = "done" /\ Len(results) = 0)
    => /\ benchRet.avgTime # NaN
       /\ benchRet.avgTime = Zero
       /\ benchRet.minTime = 0
       /\ benchRet.maxTime = 0
       /\ benchRet.errors = fnCalls.timed
       /\ benchRet.errors = benchOpts.iterations

C22_ServiceRead ==
    [][\A i \in 1..Len(reads) :
          LET b == breakers[ServiceName]
              c == breakers'[ServiceName] IN
          /\ (ReadResumes(i) /\ reads[i].held)
             => /\ outcome' = returnResult(reads[i].heldVal)
                /\ served'.fetches = 0
                /\ Len(reads') = Len(reads) - 1
                /\ cache' = cache
          /\ (ReadResumes(i) /\ ~reads[i].held)
             => /\ reads'[i].pc = "fetching"
                /\ reads'[i].fetches = 1
                /\ c = b
          /\ \A v \in Values :
                FetchResolves(i, v)
                => /\ ~reads[i].held
                   /\ served'.fetches = 1
                   /\ Len(reads') = Len(reads) - 1
                   /\ outcome' = returnResult(v)
                   /\ HasKey(cache', ServiceKey)
                   /\ cache'[IndexOf(cache', ServiceKey)].value = v
                   /\ cache'[IndexOf(cache', ServiceKey)].expiry > now
                   /\ c.totalSuccesses = b.totalSuccesses + 1
                   /\ c.totalFailures = b.totalFailures
          /\ \A e \in Errors :
                FetchRejects(i, e)
                => /\ ~reads[i].held
                   /\ served'.fetches = 1
                   /\ Len(reads') = Len(reads) - 1
                   /\ outcome' = rethrow(e)
                   /\ cache' = cache
                   /\ c.totalFailures = b.totalFailures + 1
                   /\ c.totalSuccesses = b.totalSuccesses]_vars

C22_Witness ==
    /\ served.kind = "returned"
    /\ served.held
    /\ served.val = served.heldVal
    /\ served.fetches = 0
    /\ stats.hits = 1
    /\ stats.misses = 3
    /\ Len(cache) = 1
    /\ now > DefaultCacheOptions.ttl
    /\ breakers[ServiceName].totalFailures = 1
    /\ breakers[ServiceName].totalSuccesses = 3

(***************************************************************************)
(* Successive observations of one breaker or one cache key (checked under  *)
(* SpecObserved).                                                          *)
(***************************************************************************)
TotalsNotDecreased(n) ==
    /\ breakers'[n].totalRequests >= breakers[n].totalRequests
    /\ breakers'[n].totalFailures >= breakers[n].totalFailures
    /\ breakers'[n].totalSuccesses >= breakers[n].totalSuccesses

StoredBeforeAndAfter(k) == HasKey(cache, k) /\ HasKey(cache', k)

EntryBefore(k) == cache[IndexOf(cache, k)]
EntryAfter(k) == cache'[IndexOf(cache', k)]

\* C25 as stated: across every step, whatever operation it is, the three
\* totals of a breaker do not decrease, and the lastAccessed and the
\* accessCount of a key that is stored before and after do not decrease.
C25_AlwaysMonotonic ==
    [][/\ \A n \in Names :
             (Registered(n) /\ breakers'[n] # NoBreaker) => TotalsNotDecreased(n)
       /\ \A k \in Keys :
             StoredBeforeAndAfter(k)
             => /\ EntryAfter(k).lastAccessed >= EntryBefore(k).lastAccessed
                /\ EntryAfter(k).accessCount >= EntryBefore(k).accessCount]_vars

\* C25, amended: the three totals of a breaker do not decrease across any
\* step other than reset(), which sets them to 0; the lastAccessed of a
\* stored key never decreases and is never later than the clock, so that an
\* entry stored anew is not older than any entry the key had before; and
\* the accessCount of a stored key does not decrease across any step other
\* than a set() of that key, which stores a new entry with accessCount 0.
C25_MonotonicBetweenResets ==
    /\ [](\A i \in 1..Len(cache) : cache[i].lastAccessed <= now)
    /\ [][/\ \A n \in Names :
               (Registered(n) /\ breakers'[n] # NoBreaker)
               => /\ ~Reset(n) => TotalsNotDecreased(n)
                  /\ Reset(n) => /\ breakers'[n].totalRequests = 0
                                 /\ breakers'[n].totalFailures = 0
                                 /\ breakers'[n].totalSuccesses = 0
         /\ \A k \in Keys :
               StoredBeforeAndAfter(k)
               => /\ EntryAfter(k).lastAccessed >= EntryBefore(k).lastAccessed
                  /\ IF \E v \in Values, ttl \in TtlArgs : CacheSet(k, v, ttl)
                     THEN EntryAfter(k).accessCount = 0
                     ELSE EntryAfter(k).accessCount >= EntryBefore(k).accessCount]_vars

C25_Witness ==
    /\ HasKey(cache, "k1")
    /\ cache[IndexOf(cache, "k1")].accessCount = 0
    /\ cache[IndexOf(cache, "k1")].lastAccessed = now
    /\ now > 0
    /\ stats.hits = 1
    /\ stats.misses = 0
    /\ calls = 3

=============================================================================
